---- MODULE Spec2Model ----
(***************************************************************************)
(* Review ingestion and batch sentiment classification                     *)
(* (scorpions1340/Yandex_TEST): app/api/endpoints.py, the classifiers in   *)
(* app/models/, the request schemas and app/utils/file_handler.py.         *)
(*                                                                         *)
(* One request is in flight at a time; the classifier object is the module *)
(* level singleton and outlives the requests.  A text is abstracted to the *)
(* triple (leading whitespace, core, trailing whitespace): that is all     *)
(* that strip(), len() and slicing [:n] of the code observe.               *)
(***************************************************************************)
EXTENDS Integers, Sequences, FiniteSets, TLC

VARIABLES
    impl,       \* which classifier the endpoints are bound to: "mock" | "real"
    started,    \* the lifespan start-up hook has run
    tokenizer,  \* SentimentClassifier.tokenizer is not None
    model,      \* SentimentClassifier.model is not None
    loaded,     \* MockSentimentClassifier.loaded
    route,      \* the route the request in flight was sent to, "" when none is
    token,      \* the Authorization header of the request in flight
    pc,         \* position of the request handler
    req,        \* the request in flight: [kind, file, payload]
    ext,        \* upload_file: file_extension
    content,    \* upload_file: file_content has been read (the bytes are req.file)
    extractor,  \* history: the FileHandler extractor this request has invoked
    column_name,\* upload_file: column_name, set by the csv branch only
    texts,      \* the list handed to predict_batch / predict_single
    results,    \* predict_batch: results
    calls,      \* history: what each inference step of this request was run on
    failed,     \* history: indices of this request whose inference raised
    response,   \* what the caller receives
    trace,      \* history: the steps of the handler, in execution order
    handlers,   \* two requests in flight at once: the locals of each handler
    overlap     \* history: handlers suspended at file.read() while the other ran

vars == <<impl, started, tokenizer, model, loaded, route, token, pc, req, ext, content,
          extractor, column_name, texts, results, calls, failed, response, trace, handlers, overlap>>

(***************************************************************************)
(* Bounds of the model                                                     *)
(***************************************************************************)
MaxBatch == 2      \* longest list of texts in a classify-batch payload
MaxLines == 2      \* longest list of source items (lines, rows, elements) in a file

(***************************************************************************)
(* Program constants                                                       *)
(***************************************************************************)
max_text_length == 512
default_max_size_mb == 10
single_max_length == 512
single_min_length == 1
batch_min_items == 1
batch_max_items == 100
ConfidenceScale == 10000   \* confidences are rounded to 4 digits: value * 10^4

(***************************************************************************)
(* Texts                                                                   *)
(***************************************************************************)
\* A string: `lead` whitespace characters, a core of `len` characters that
\* starts and ends with a non-whitespace character, `trail` whitespace
\* characters.  A string with an empty core keeps all its whitespace in lead.
Txt(id, lead, len, trail) == [id |-> id, lead |-> lead, len |-> len, trail |-> trail]

EmptyStr == Txt("", 0, 0, 0)

\* len(s)
StrLen(s) == s.lead + s.len + s.trail

\* Mutant: strip() removes nothing
Strip_Identity(s) == s

\* s.strip()
Strip(s) == IF s.len = 0 THEN EmptyStr ELSE Txt(s.id, 0, s.len, 0)

\* bool(s): a non-empty string is truthy
Truthy(s) == StrLen(s) > 0

\* s[:n] of a stripped string
Prefix(s, n) == IF s.len > n THEN Txt(s.id, 0, n, 0) ELSE s

RECURSIVE MapStrip(_)
MapStrip(ts) == IF ts = <<>> THEN <<>> ELSE <<Strip(Head(ts))>> \o MapStrip(Tail(ts))

SeqsUpTo(S, n) == UNION {[1..k -> S] : k \in 0..n}

(***************************************************************************)
(* Results and the classifiers                                             *)
(***************************************************************************)
SentimentLabel == {"positive", "negative", "neutral"}

\* SentimentClassifier.label_mapping.get(predicted_class, SentimentLabel.NEUTRAL)
label_mapping(predicted_class) ==
    CASE predicted_class \in {0, 1} -> "negative"
      [] predicted_class = 2        -> "neutral"
      [] predicted_class \in {3, 4} -> "positive"
      [] OTHER                      -> "neutral"

\* Mutant: the confidence is not validated
SentimentResultValid_NoRange(sentiment, confidence) == sentiment \in SentimentLabel

\* SentimentResult: Field(ge=0.0, le=1.0) and validate_confidence; the
\* constructor raises when this is false.
SentimentResultValid(sentiment, confidence) ==
    /\ sentiment \in SentimentLabel
    /\ 0 <= confidence
    /\ confidence <= ConfidenceScale

SentimentResult(text, sentiment, confidence) ==
    [sentiment |-> sentiment, confidence |-> confidence, text |-> text]

\* Mutant: the substituted result carries a middling confidence
FailOpenResult_HalfConfidence(text) == SentimentResult(text, "neutral", 5000)

\* The except branch of SentimentClassifier.predict_single
FailOpenResult(text) == SentimentResult(text, "neutral", 0)

\* A confidence that is not a number (softmax over non-finite logits): it
\* compares false with every bound, as here.
NaN == 0 - 1

\* What the external inference step can do: raise, or give a class and the
\* rounded probability of that class.
PredictedClasses == 0..5
RealConfidences == {3334, ConfidenceScale, NaN}
InferenceOutcomes ==
    {[confidence |-> 0, raised |-> TRUE, class |-> 0]}
    \cup {[confidence |-> p, raised |-> FALSE, class |-> c] :
            c \in PredictedClasses, p \in RealConfidences}

\* round(random.uniform(0.7, 0.99), 4): the two ends of the interval
MockConfidences == {7000, 9900}

\* SentimentClassifier.preprocess_text followed by the length limit
RealProcessedText(text) == Prefix(Strip(text), max_text_length)

\* MockSentimentClassifier.preprocess_text (the mock does not limit the length)
MockProcessedText(text) == Strip(text)

\* SentimentClassifier.load_model: the statement at which it raises, if any.
\* The assignments made before that statement stay.
LoadOutcomes == {"ok", "fail_tokenizer", "fail_model", "fail_device"}

RealLoadModel(lo) ==
    [tokenizer |-> IF lo = "fail_tokenizer" THEN tokenizer ELSE TRUE,
     model     |-> IF lo \in {"fail_tokenizer", "fail_model"} THEN model ELSE TRUE,
     raised    |-> lo # "ok"]

\* "if not self.model or not self.tokenizer" / "if not self.loaded"
RealLoadNeeded == ~model \/ ~tokenizer
MockLoadNeeded == ~loaded

\* The try/except of SentimentClassifier.predict_single, given what the
\* inference step did.
RealTryRaised(inf) ==
    \/ inf.raised
    \/ ~SentimentResultValid(label_mapping(inf.class), inf.confidence)

RealTryResult(text, inf) ==
    IF RealTryRaised(inf)
      THEN FailOpenResult(text)
      ELSE SentimentResult(text, label_mapping(inf.class), inf.confidence)

\* The item predict_batch is at
NextIndex == Len(results) + 1

\* Mutant: the result is put in front of the list
AppendResult_Prepend(rs, r) == <<r>> \o rs

\* "results.append(result)" of predict_batch
AppendResult(rs, r) == Append(rs, r)

\* predict_batch: "results = []; for text in texts"
LoopEntry(ts) == IF ts = <<>> THEN "respond" ELSE "classify"

\* Mutant: the loop is left after the first item
AfterItem_StopsEarly == "respond"

\* Where the handler goes once predict_single has returned for one item
AfterItem == IF Len(results) + 1 = Len(texts) THEN "respond" ELSE "classify"

InternalError == [status |-> 500, detail |-> "internal"]

\* An exception leaves predict_single and predict_batch and reaches the
\* "except Exception" of the endpoint.
RaiseOutOfPredict ==
    /\ pc' = "done"
    /\ response' = InternalError
    /\ trace' = Append(trace, "Failed")
    /\ UNCHANGED <<results, calls, failed>>

\* One iteration of SentimentClassifier.predict_batch: predict_single(text)
\* and results.append(result).
RealPredictSingle ==
    /\ impl = "real"
    /\ pc = "classify"
    /\ NextIndex <= Len(texts)
    /\ LET text == texts[NextIndex] IN
       \E lo \in (IF RealLoadNeeded THEN LoadOutcomes ELSE {"ok"}) :
         LET ld == IF RealLoadNeeded
                     THEN RealLoadModel(lo)
                     ELSE [tokenizer |-> tokenizer, model |-> model, raised |-> FALSE]
         IN /\ tokenizer' = ld.tokenizer
            /\ model' = ld.model
            /\ IF ld.raised
                 THEN RaiseOutOfPredict
                 ELSE \E inf \in InferenceOutcomes :
                        /\ calls' = Append(calls, [text |-> text,
                                                   input |-> RealProcessedText(text)])
                        /\ failed' = IF RealTryRaised(inf)
                                        THEN failed \cup {NextIndex}
                                        ELSE failed
                        /\ results' = AppendResult(results, RealTryResult(text, inf))
                        /\ trace' = Append(trace, "Classified")
                        /\ pc' = AfterItem
                        /\ UNCHANGED response
    /\ UNCHANGED <<handlers, overlap, impl, started, loaded, route, token, req, ext, content, extractor,
                   column_name, texts>>

\* One iteration of MockSentimentClassifier.predict_batch
MockPredictSingle ==
    /\ impl = "mock"
    /\ pc = "classify"
    /\ NextIndex <= Len(texts)
    /\ LET text == texts[NextIndex] IN
       \E sentiment \in SentimentLabel, confidence \in MockConfidences :
         /\ loaded' = (IF MockLoadNeeded THEN TRUE ELSE loaded)
         /\ calls' = Append(calls, [text |-> text, input |-> MockProcessedText(text)])
         /\ results' = AppendResult(results, SentimentResult(text, sentiment, confidence))
         /\ trace' = Append(trace, "Classified")
         /\ pc' = AfterItem
    /\ UNCHANGED <<handlers, overlap, impl, started, tokenizer, model, route, token, req, ext, content, extractor,
                   column_name, texts, failed, response>>


(***************************************************************************)
(* Request schemas (app/models/schemas.py)                                 *)
(***************************************************************************)
\* SingleReviewRequest: Field(min_length=1, max_length=512) on the text as
\* sent, then validate_text.
SingleRequestValid(text) ==
    /\ StrLen(text) >= single_min_length
    /\ StrLen(text) <= single_max_length
    /\ Truthy(Strip(text))

\* BatchReviewRequest: Field(min_items=1, max_items=100), then validate_texts.
BatchRequestValid(ts) ==
    /\ Len(ts) >= batch_min_items
    /\ Len(ts) <= batch_max_items
    /\ \A i \in 1..Len(ts) : Truthy(Strip(ts[i]))

ValidationError == [status |-> 422, detail |-> "validation"]

(***************************************************************************)
(* File names and the format check of upload_file                          *)
(***************************************************************************)
Uppercase == <<"A", "B", "C", "D", "E", "F", "G", "H", "I", "J", "K", "L", "M",
               "N", "O", "P", "Q", "R", "S", "T", "U", "V", "W", "X", "Y", "Z">>
Lowercase == <<"a", "b", "c", "d", "e", "f", "g", "h", "i", "j", "k", "l", "m",
               "n", "o", "p", "q", "r", "s", "t", "u", "v", "w", "x", "y", "z">>

\* str.lower() on one character and on a word (a sequence of characters)
LowerChar(c) ==
    IF \E i \in 1..Len(Uppercase) : Uppercase[i] = c
      THEN Lowercase[CHOOSE i \in 1..Len(Uppercase) : Uppercase[i] = c]
      ELSE c

Lower(w) == [i \in 1..Len(w) |-> LowerChar(w[i])]

\* w.split(".")[-1]: what follows the last dot, the whole word without a dot
LastPart(w) ==
    LET dots == {i \in 1..Len(w) : w[i] = "."}
    IN IF dots = {}
         THEN w
         ELSE LET last == CHOOSE i \in dots : \A j \in dots : j <= i
              IN SubSeq(w, last + 1, Len(w))

allowed_extensions == {<<"c", "s", "v">>, <<"j", "s", "o", "n">>, <<"t", "x", "t">>}

\* Mutant: the extension is compared as written
file_extension_CaseSensitive(file) ==
    IF file.has_name /\ file.filename # <<>>
      THEN LastPart(file.filename)
      ELSE <<>>

\* file.filename.split(".")[-1].lower() if file.filename else ""
\* (a file without a name has has_name FALSE)
file_extension(file) ==
    IF file.has_name /\ file.filename # <<>>
      THEN Lower(LastPart(file.filename))
      ELSE <<>>

FormatAllowed(e) == e \in allowed_extensions

\* Mutant: a file of exactly the cap is refused
validate_file_size_Strict(size, max_size_mb) == size < max_size_mb * 1024 * 1024

\* FileHandler.validate_file_size: len(file_content) <= max_size_mb * 1024 * 1024
validate_file_size(size, max_size_mb) == size <= max_size_mb * 1024 * 1024

\* Mutant: the size check always passes
UploadSizeAccepted_Always(file) == TRUE

\* The call of upload_file, which passes no max_size_mb
UploadSizeAccepted(file) == validate_file_size(file.size, default_max_size_mb)

UnsupportedFormat == [status |-> 400, detail |-> "unsupported_format"]
Oversize == [status |-> 400, detail |-> "oversize"]
NoTexts == [status |-> 400, detail |-> "no_texts"]
NoResponse == [status |-> 0, detail |-> ""]

(***************************************************************************)
(* File contents.  The bytes of a file are modelled by what the extractor  *)
(* chosen by the extension makes of them: whether they decode as UTF-8,    *)
(* and then the newline-separated runs (txt), the records csv.DictReader   *)
(* yields (csv) or the value json.loads returns (json).                    *)
(***************************************************************************)
BadUtf8 == [kind |-> "bad_utf8"]

\* What an extractor call does: it raises, or returns texts (and, for csv,
\* the column they were read from)
Extracted(ts, col) == [texts |-> ts, raised |-> FALSE, column |-> col]
ExtractorRaised == [texts |-> <<>>, raised |-> TRUE, column |-> <<>>]

\* "if s.strip(): texts.append(s.strip())" over a list of strings
RECURSIVE KeepStripped(_)
KeepStripped(ss) ==
    IF ss = <<>> THEN <<>>
    ELSE IF Truthy(Strip(Head(ss)))
           THEN <<Strip(Head(ss))>> \o KeepStripped(Tail(ss))
           ELSE KeepStripped(Tail(ss))

\* ---- txt: a sequence of tokens, a newline or a run of other characters
NL == [s |-> EmptyStr, nl |-> TRUE]
Run(s) == [s |-> s, nl |-> FALSE]
TxtBody(toks) == [kind |-> "txt", tokens |-> toks]

\* content.split('\n')
RECURSIVE SplitNL(_)
SplitNL(toks) ==
    IF toks = <<>> THEN <<EmptyStr>>
    ELSE LET rest == SplitNL(Tail(toks))
         IN IF Head(toks).nl
              THEN <<EmptyStr>> \o rest
              ELSE <<Head(toks).s>> \o Tail(rest)

\* '\n'.join(lines), as tokens: the file a list of lines is written as
RECURSIVE JoinNL(_)
JoinNL(lines) ==
    IF lines = <<>> THEN <<>>
    ELSE (IF Truthy(Head(lines)) THEN <<Run(Head(lines))>> ELSE <<>>)
         \o (IF Len(lines) > 1 THEN <<NL>> \o JoinNL(Tail(lines)) ELSE <<>>)

\* Mutant: the texts are collected in front of the list, last line first
process_txt_file_Reversed(body) ==
    IF body.kind = "bad_utf8"
      THEN ExtractorRaised
      ELSE LET ts == KeepStripped(SplitNL(body.tokens))
           IN Extracted([i \in 1..Len(ts) |-> ts[Len(ts) + 1 - i]], <<>>)

\* Mutant: the lines are tested and kept as they are, without strip()
process_txt_file_NoStrip(body) ==
    IF body.kind = "bad_utf8"
      THEN ExtractorRaised
      ELSE Extracted(SelectSeq(SplitNL(body.tokens), Truthy), <<>>)

\* FileHandler.process_txt_file
process_txt_file(body) ==
    IF body.kind = "bad_utf8"
      THEN ExtractorRaised
      ELSE Extracted(KeepStripped(SplitNL(body.tokens)), <<>>)

\* ---- csv: the header record and the data records as csv.reader yields them
\* (has_header is FALSE when the reader yields no record at all, so that
\* DictReader.fieldnames is None)
CsvBody(has_header, fieldnames, rows) ==
    [kind |-> "csv", has_header |-> has_header, fieldnames |-> fieldnames,
     rows |-> rows]

possible_columns ==
    {<<"t", "e", "x", "t">>, <<"r", "e", "v", "i", "e", "w">>,
     <<"c", "o", "m", "m", "e", "n", "t">>, <<"f", "e", "e", "d", "b", "a", "c", "k">>,
     <<"m", "e", "s", "s", "a", "g", "e">>, <<"c", "o", "n", "t", "e", "n", "t">>}

\* Mutant: the search goes on after a match, so that the last match wins
MatchingColumn_LastMatch(fieldnames) ==
    LET hits == {i \in 1..Len(fieldnames) : Lower(fieldnames[i]) \in possible_columns}
    IN IF hits = {} THEN 0 ELSE CHOOSE i \in hits : \A j \in hits : j <= i

\* "for column in csv_reader.fieldnames: if column.lower() in possible_columns:
\*  text_column = column; break": the index of the column, 0 when none matches
MatchingColumn(fieldnames) ==
    LET hits == {i \in 1..Len(fieldnames) : Lower(fieldnames[i]) \in possible_columns}
    IN IF hits = {} THEN 0 ELSE CHOOSE i \in hits : \A j \in hits : i <= j

\* text_column after the search and the fallback to the first header; the
\* empty word stands for a falsy text_column (None or "")
text_column_of(fieldnames) ==
    IF MatchingColumn(fieldnames) # 0
      THEN fieldnames[MatchingColumn(fieldnames)]
      ELSE IF fieldnames # <<>> THEN fieldnames[1] ELSE <<>>

\* DictReader's row dict: the value under key col is that of the last header
\* equal to col; a header beyond the end of the record has the value None.
RowHasValue(fieldnames, row, col) ==
    LET last == CHOOSE i \in 1..Len(fieldnames) :
                  /\ fieldnames[i] = col
                  /\ \A j \in 1..Len(fieldnames) : fieldnames[j] = col => j <= i
    IN last <= Len(row)

RowValue(fieldnames, row, col) ==
    LET last == CHOOSE i \in 1..Len(fieldnames) :
                  /\ fieldnames[i] = col
                  /\ \A j \in 1..Len(fieldnames) : fieldnames[j] = col => j <= i
    IN row[last]

\* "texts = []; for row in csv_reader: if text_column in row and
\*  row[text_column].strip(): texts.append(row[text_column].strip())";
\* the reader passes over an empty record (a blank line); None.strip() raises.
RECURSIVE CsvRows(_, _, _)
CsvRows(fieldnames, rows, col) ==
    IF rows = <<>> THEN Extracted(<<>>, col)
    ELSE IF Head(rows) = <<>> THEN CsvRows(fieldnames, Tail(rows), col)
    ELSE IF ~RowHasValue(fieldnames, Head(rows), col)
           THEN ExtractorRaised
           ELSE LET rest == CsvRows(fieldnames, Tail(rows), col)
                    v == RowValue(fieldnames, Head(rows), col)
                IN IF rest.raised THEN ExtractorRaised
                   ELSE IF Truthy(Strip(v))
                          THEN Extracted(<<Strip(v)>> \o rest.texts, col)
                          ELSE rest

\* FileHandler.process_csv_file
process_csv_file(body) ==
    IF body.kind = "bad_utf8" THEN ExtractorRaised
    ELSE IF ~body.has_header THEN ExtractorRaised
    ELSE IF text_column_of(body.fieldnames) = <<>> THEN ExtractorRaised
    ELSE CsvRows(body.fieldnames, body.rows, text_column_of(body.fieldnames))

\* ---- json: the value json.loads returns, or a syntax error
JVal(t, s, items, fields) == [s |-> s, t |-> t, items |-> items, fields |-> fields]
JStr(s) == JVal("str", s, <<>>, <<>>)
JNum == JVal("num", EmptyStr, <<>>, <<>>)
JNull == JVal("null", EmptyStr, <<>>, <<>>)
JBool == JVal("bool", EmptyStr, <<>>, <<>>)
JList(items) == JVal("list", EmptyStr, items, <<>>)
\* an object: its members as <<key, value>> pairs, the keys distinct
JDict(fields) == JVal("dict", EmptyStr, <<>>, fields)
JsonBody(valid, data) == [kind |-> "json", valid |-> valid, data |-> data]

item_keys == <<"text", "review", "comment", "feedback", "message", "content">>
array_keys == <<"texts", "reviews", "comments", "feedbacks", "messages", "content">>

\* "key in d" and "d[key]"
HasKey(d, key) == \E i \in 1..Len(d.fields) : d.fields[i][1] = key
GetKey(d, key) == d.fields[CHOOSE i \in 1..Len(d.fields) : d.fields[i][1] = key][2]

\* The inner loop over item_keys for one object of an array: the texts it
\* appends (none or one)
ItemKeyUsable(item, key) ==
    /\ HasKey(item, key)
    /\ GetKey(item, key).t = "str"
    /\ Truthy(Strip(GetKey(item, key).s))

\* Mutant: the members of the object are tried in the order of the object,
\* not in the order of item_keys
ObjectTexts_ObjectOrder(item) ==
    LET hits == {i \in 1..Len(item.fields) :
                   /\ \E k \in 1..Len(item_keys) : item_keys[k] = item.fields[i][1]
                   /\ ItemKeyUsable(item, item.fields[i][1])}
    IN IF hits = {} THEN <<>>
       ELSE LET first == CHOOSE i \in hits : \A j \in hits : i <= j
            IN <<Strip(item.fields[first][2].s)>>

ObjectTexts(item) ==
    LET hits == {k \in 1..Len(item_keys) : ItemKeyUsable(item, item_keys[k])}
    IN IF hits = {} THEN <<>>
       ELSE LET first == CHOOSE k \in hits : \A j \in hits : k <= j
            IN <<Strip(GetKey(item, item_keys[first]).s)>>

\* The loop over a top-level array
RECURSIVE ArrayTexts(_)
ArrayTexts(items) ==
    IF items = <<>> THEN <<>>
    ELSE (IF Head(items).t = "dict" THEN ObjectTexts(Head(items))
          ELSE IF Head(items).t = "str" /\ Truthy(Strip(Head(items).s))
                 THEN <<Strip(Head(items).s)>>
                 ELSE <<>>)
         \o ArrayTexts(Tail(items))

\* The inner loop over the array found under a key of a top-level object
RECURSIVE StringTexts(_)
StringTexts(items) ==
    IF items = <<>> THEN <<>>
    ELSE (IF Head(items).t = "str" /\ Truthy(Strip(Head(items).s))
            THEN <<Strip(Head(items).s)>>
            ELSE <<>>)
         \o StringTexts(Tail(items))

\* Mutant: the loop over array_keys has no break
DictTexts_NoBreak(data) ==
    LET under(k) == IF HasKey(data, array_keys[k]) /\ GetKey(data, array_keys[k]).t = "list"
                      THEN StringTexts(GetKey(data, array_keys[k]).items)
                      ELSE <<>>
    IN under(1) \o under(2) \o under(3) \o under(4) \o under(5) \o under(6)

\* The loop over array_keys for a top-level object, with its break
DictTexts(data) ==
    LET hits == {k \in 1..Len(array_keys) :
                   HasKey(data, array_keys[k]) /\ GetKey(data, array_keys[k]).t = "list"}
    IN IF hits = {} THEN <<>>
       ELSE LET first == CHOOSE k \in hits : \A j \in hits : k <= j
            IN StringTexts(GetKey(data, array_keys[first]).items)

\* Mutant: a top level that is neither an array nor an object is an error
process_json_file_ScalarRaises(body) ==
    IF body.kind = "bad_utf8" THEN ExtractorRaised
    ELSE IF ~body.valid THEN ExtractorRaised
    ELSE IF body.data.t = "list" THEN Extracted(ArrayTexts(body.data.items), <<>>)
    ELSE IF body.data.t = "dict" THEN Extracted(DictTexts(body.data), <<>>)
    ELSE ExtractorRaised

\* FileHandler.process_json_file
process_json_file(body) ==
    IF body.kind = "bad_utf8" THEN ExtractorRaised
    ELSE IF ~body.valid THEN ExtractorRaised
    ELSE IF body.data.t = "list" THEN Extracted(ArrayTexts(body.data.items), <<>>)
    ELSE IF body.data.t = "dict" THEN Extracted(DictTexts(body.data), <<>>)
    ELSE Extracted(<<>>, <<>>)

(***************************************************************************)
(* Inputs                                                                  *)
(***************************************************************************)
tA == Txt("a", 0, 1, 0)                        \* "a"
tB == Txt("b", 1, 1, 1)                        \* " b "
tBlank == Txt("", 1, 0, 0)                     \* " "
tLong == Txt("L", 0, max_text_length + 1, 0)   \* one character too long

RawTexts == {tA, tB, tBlank, tLong}

BatchPayloads == SeqsUpTo(RawTexts, MaxBatch)
SinglePayloads == {<<t>> : t \in RawTexts \cup {EmptyStr}}

\* File names, as sequences of characters
nCsv == <<"r", ".", "c", "s", "v">>
nJson == <<"r", ".", "j", "s", "o", "n">>
nTxt == <<"r", ".", "t", "x", "t">>
nCsvUpper == <<"r", ".", "C", "S", "V">>
nJsonMixed == <<"r", ".", "J", "s", "o", "n">>
nTwoDots == <<"a", ".", "b", ".", "T", "X", "T">>
nPdf == <<"r", ".", "p", "d", "f">>
nTxtPdf == <<"r", ".", "t", "x", "t", ".", "p", "d", "f">>
nBareCsv == <<"c", "s", "v">>
nBareJson == <<"j", "s", "o", "n">>
nBareTxt == <<"t", "x", "t">>
nNoDot == <<"r">>
nEndDot == <<"r", ".">>

CanonicalNames == {nCsv, nJson, nTxt}
OtherNames == {nCsvUpper, nJsonMixed, nTwoDots, nPdf, nTxtPdf, nBareCsv, nBareJson,
               nBareTxt, nNoDot, nEndDot, <<>>}

\* Byte lengths around the cap of validate_file_size
max_size_bytes == default_max_size_mb * 1024 * 1024
Sizes == {max_size_bytes - 1, max_size_bytes, max_size_bytes + 1}

\* txt contents: up to MaxLines lines joined by newlines, and the file "a\n\nb\n"
LineValues == {tA, tB, EmptyStr}
TxtBodies ==
    {TxtBody(JoinNL(ls)) : ls \in SeqsUpTo(LineValues, MaxLines)}
    \cup {TxtBody(<<Run(tA), NL, NL, Run(tB), NL>>),
          TxtBody(<<Run(tBlank), NL, Run(tB), NL, Run(tA)>>)}

\* csv contents
hReview == <<"R", "e", "v", "i", "e", "w">>
hId == <<"i", "d">>
hText == <<"t", "e", "x", "t">>
hName == <<"n", "a", "m", "e">>
hContent == <<"c", "o", "n", "t", "e", "n", "t">>
hTextUpper == <<"T", "E", "X", "T">>
CellValues == {tA, tB, tBlank}
CsvBodies ==
    {CsvBody(FALSE, <<>>, <<>>), CsvBody(TRUE, <<>>, <<>>)}
    \cup {CsvBody(TRUE, <<hReview>>, rows) :
            rows \in SeqsUpTo({<<c>> : c \in CellValues}, MaxLines)}
    \cup {CsvBody(TRUE, <<hId, hText>>, rows) :
            rows \in SeqsUpTo({<<tA>>, <<tA, tB>>}, MaxLines)}
    \cup {CsvBody(TRUE, <<hName, hId>>, <<<<tB, tA>>>>),
          CsvBody(TRUE, <<<<>>, hId>>, <<<<tA, tA>>>>),
          CsvBody(TRUE, <<<<>>, hText>>, <<<<tA, tB>>>>),
          CsvBody(TRUE, <<hContent, hText>>, <<<<tB, tA>>, <<tBlank, tA>>, <<tA, tB>>>>),
          CsvBody(TRUE, <<hId, hTextUpper>>, <<<<tA, tB>>, <<>>, <<tB, tA, tA>>>>),
          CsvBody(TRUE, <<hReview>>, <<<<tA>>, <<EmptyStr>>, <<tB>>>>)}

\* json contents
JsonItems == {JStr(tA), JStr(tBlank), JNum, JDict(<<<<"review", JStr(tB)>>>>)}
JsonStrings == {JStr(tA), JStr(EmptyStr), JNum}
JsonObjects ==
    {JDict(<<<<"review", JStr(tB)>>, <<"text", JStr(tA)>>>>),
     JDict(<<<<"text", JStr(tBlank)>>, <<"review", JStr(tB)>>>>),
     JDict(<<<<"text", JNum>>, <<"content", JStr(tA)>>, <<"message", JStr(tB)>>>>),
     JDict(<<<<"data", JStr(tA)>>>>),
     JDict(<<>>)}
JsonBodies ==
    {JsonBody(FALSE, JNull), JsonBody(TRUE, JNull), JsonBody(TRUE, JNum),
     JsonBody(TRUE, JBool), JsonBody(TRUE, JStr(tA))}
    \cup {JsonBody(TRUE, JList(items)) : items \in SeqsUpTo(JsonItems, MaxLines)}
    \cup {JsonBody(TRUE, JDict(<<<<"reviews", JList(items)>>>>)) :
            items \in SeqsUpTo(JsonStrings, MaxLines)}
    \cup {JsonBody(TRUE, JDict(<<<<"reviews", JList(<<JStr(tA)>>)>>,
                                <<"texts", JList(<<>>)>>>>)),
          JsonBody(TRUE, JDict(<<<<"data", JList(<<JStr(tA)>>)>>>>)),
          JsonBody(TRUE, JDict(<<<<"texts", JStr(tA)>>,
                                <<"reviews", JList(<<JStr(tB), JStr(tA)>>)>>>>)),
          JsonBody(TRUE, JDict(<<<<"comments", JList(<<JStr(tA)>>)>>,
                                <<"reviews", JList(<<JStr(tB)>>)>>>>)),
          JsonBody(TRUE, JDict(<<<<"content", JList(<<JStr(tA), JNum, JList(<<>>),
                                                     JStr(tB)>>)>>>>)),
          JsonBody(TRUE, JDict(<<>>))}
    \cup {JsonBody(TRUE, JList(<<d, JStr(tA)>>)) : d \in JsonObjects}
    \cup {JsonBody(TRUE, JList(<<JList(<<JStr(tA)>>), JNull, JStr(tB), JStr(tA)>>))}

\* The contents a file of a given name is tried with: every content of its
\* format under the canonical names, one representative otherwise
BodiesFor(name) ==
    LET e == Lower(LastPart(name))
    IN IF name \in CanonicalNames
         THEN {BadUtf8} \cup (CASE e = <<"c", "s", "v">> -> CsvBodies
                                [] e = <<"j", "s", "o", "n">> -> JsonBodies
                                [] OTHER -> TxtBodies)
         ELSE CASE e = <<"c", "s", "v">> -> {CsvBody(TRUE, <<hReview>>, <<<<tA>>>>)}
                [] e = <<"j", "s", "o", "n">> -> {JsonBody(TRUE, JList(<<JStr(tA)>>))}
                [] OTHER -> {TxtBody(<<Run(tA)>>)}

File(has_name, name, size, body) ==
    [has_name |-> has_name, filename |-> name, size |-> size, body |-> body]

\* The lengths a content is tried with: all three around the cap for one
\* content per format, the cap itself and one byte more for the others
SizesFor(body) ==
    IF body \in {CsvBody(TRUE, <<hReview>>, <<<<tA>>>>), JsonBody(TRUE, JList(<<JStr(tA)>>)),
                 TxtBody(<<Run(tA)>>)}
      THEN Sizes
      ELSE {max_size_bytes, max_size_bytes + 1}

Files ==
    UNION {UNION {{File(TRUE, n, sz, b) : sz \in SizesFor(b)} : b \in BodiesFor(n)} :
             n \in CanonicalNames \cup OtherNames}
    \cup {File(FALSE, <<>>, sz, TxtBody(<<Run(tA)>>)) : sz \in Sizes}

NoFile == File(FALSE, <<>>, 0, BadUtf8)

(***************************************************************************)
(* Access to the routes (app/api/endpoints.py, app/auth)                   *)
(***************************************************************************)
\* What a request carries as Authorization: nothing, a bearer token that
\* jwt.decode refuses (malformed, expired), or a token of an active user
Tokens == {"absent", "malformed", "expired", "valid"}

Routes == {"classify", "classify-batch", "upload-file", "health", "model-info"}

\* Mutant: classify-batch has lost its dependency
ProtectedRoutes_BatchOpen == {"classify", "upload-file"}

\* The routes declared with "current_user: User = Depends(get_current_active_user)"
ProtectedRoutes == {"classify", "classify-batch", "upload-file"}

RouteOf(kind) ==
    CASE kind = "single" -> "classify"
      [] kind = "batch"  -> "classify-batch"
      [] kind = "upload" -> "upload-file"

\* security.verify_token: TRUE when it returns the token data, FALSE when it
\* raises the credentials exception (jwt.decode raised JWTError)
verify_token(tk) == tk = "valid"

NotAuthenticated == [status |-> 403, detail |-> "not_authenticated"]
credentials_exception == [status |-> 401, detail |-> "credentials"]

\* get_current_active_user: the error it raises, NoResponse when it returns
\* the user.  Without a bearer token the request is refused with 403.
get_current_active_user(tk) ==
    IF tk = "absent" THEN NotAuthenticated
    ELSE IF ~verify_token(tk) THEN credentials_exception
    ELSE NoResponse

\* The dependencies of a route, resolved before its handler is called
Depends(rt, tk) ==
    IF rt \in ProtectedRoutes THEN get_current_active_user(tk) ELSE NoResponse

\* The handlers of the two requests that can be in flight together
Handlers == {1, 2}

\* The locals of a handler that has no request
HandlerIdle ==
    [pc |-> "idle", req |-> [file |-> NoFile, kind |-> "none", payload |-> <<>>],
     texts |-> <<>>, results |-> <<>>, response |-> NoResponse]

(***************************************************************************)
(* The state machine                                                       *)
(***************************************************************************)
Init ==
    /\ impl \in {"mock", "real"}
    /\ started = FALSE
    /\ tokenizer = FALSE
    /\ model = FALSE
    /\ loaded = FALSE
    /\ route = ""
    /\ token = "absent"
    /\ pc = "idle"
    /\ req = [file |-> NoFile, kind |-> "none", payload |-> <<>>]
    /\ ext = <<>>
    /\ content = FALSE
    /\ extractor = ""
    /\ column_name = <<>>
    /\ texts = <<>>
    /\ results = <<>>
    /\ calls = <<>>
    /\ failed = {}
    /\ response = NoResponse
    /\ trace = <<>>
    /\ handlers = [i \in Handlers |-> HandlerIdle]
    /\ overlap = {}

\* lifespan of app/main.py: classifier.load_model() before the first request,
\* on the classifier the application is wired to; when it raises, the
\* application does not start.
Lifespan ==
    /\ pc = "idle"
    /\ ~started
    /\ started' = TRUE
    /\ \/ /\ impl = "mock"
          /\ loaded' = TRUE
          /\ pc' = "idle"
          /\ UNCHANGED <<tokenizer, model>>
       \/ /\ impl = "real"
          /\ \E lo \in LoadOutcomes :
               /\ tokenizer' = RealLoadModel(lo).tokenizer
               /\ model' = RealLoadModel(lo).model
               /\ pc' = IF RealLoadModel(lo).raised THEN "down" ELSE "idle"
          /\ UNCHANGED loaded
    /\ UNCHANGED <<handlers, overlap, impl, route, token, req, ext, content, extractor,
                   column_name, texts, results, calls, failed, response, trace>>

\* A request reaches its handler (it has passed the dependencies of the
\* route).  The router also serves when the lifespan hook has not run: the
\* lazy load of predict_single is there for that case.
Receive(r, first) ==
    /\ pc = "idle"
    /\ \E tk \in Tokens :
         /\ Depends(RouteOf(r.kind), tk) = NoResponse
         /\ token' = tk
    /\ route' = RouteOf(r.kind)
    /\ req' = r
    /\ pc' = first
    /\ trace' = <<"Received">>
    /\ UNCHANGED <<handlers, overlap, impl, started, tokenizer, model, loaded, ext, content, extractor,
                   column_name, texts, results, calls, failed, response>>

\* A dependency of the route raises: the request is answered with its
\* error and the handler is not called.
DependencyRaises ==
    /\ pc = "idle"
    /\ \E rt \in Routes, tk \in Tokens :
         /\ Depends(rt, tk) # NoResponse
         /\ route' = rt
         /\ token' = tk
         /\ response' = Depends(rt, tk)
    /\ pc' = "done"
    /\ UNCHANGED <<handlers, overlap, impl, started, tokenizer, model, loaded, req, ext, content, extractor,
                   column_name, texts, results, calls, failed, trace>>

\* The two routes that run no pipeline: GET /health and GET /model-info
ServeInfo(rt, resp) ==
    /\ pc = "idle"
    /\ \E tk \in Tokens :
         /\ Depends(rt, tk) = NoResponse
         /\ token' = tk
    /\ route' = rt
    /\ response' = resp
    /\ pc' = "done"
    /\ UNCHANGED <<handlers, overlap, impl, started, tokenizer, model, loaded, req, ext, content, extractor,
                   column_name, texts, results, calls, failed, trace>>

health_check == ServeInfo("health", [status |-> 200, detail |-> "healthy"])

get_model_info == ServeInfo("model-info", [status |-> 200, detail |-> "model_info"])

ReceiveSingle ==
    \E p \in SinglePayloads :
        Receive([file |-> NoFile, kind |-> "single", payload |-> p], "validate")

ReceiveBatch ==
    \E p \in BatchPayloads :
        Receive([file |-> NoFile, kind |-> "batch", payload |-> p], "validate")

ReceiveUpload ==
    \E f \in Files :
        Receive([file |-> f, kind |-> "upload", payload |-> <<>>], "format")

\* The handler ends with a response and no further step.
Finish(resp, event) ==
    /\ pc' = "done"
    /\ response' = resp
    /\ trace' = Append(trace, event)

\* The response has been sent: the handler's locals are gone, the classifier
\* singleton stays as it is.
Complete ==
    /\ pc = "done"
    /\ pc' = "idle"
    /\ req' = [file |-> NoFile, kind |-> "none", payload |-> <<>>]
    /\ ext' = <<>>
    /\ content' = FALSE
    /\ extractor' = ""
    /\ column_name' = <<>>
    /\ texts' = <<>>
    /\ results' = <<>>
    /\ calls' = <<>>
    /\ failed' = {}
    /\ response' = NoResponse
    /\ trace' = <<>>
    /\ route' = ""
    /\ token' = "absent"
    /\ UNCHANGED <<handlers, overlap, impl, started, tokenizer, model, loaded>>

\* The request body is parsed into SingleReviewRequest / BatchReviewRequest
\* before the handler body runs; request.text(s) are the stripped texts.
Validate ==
    /\ pc = "validate"
    /\ LET ok == IF req.kind = "single"
                   THEN SingleRequestValid(req.payload[1])
                   ELSE BatchRequestValid(req.payload)
       IN IF ok
            THEN /\ texts' = MapStrip(req.payload)
                 /\ pc' = LoopEntry(MapStrip(req.payload))
                 /\ trace' = Append(trace, "Validated")
                 /\ UNCHANGED response
            ELSE /\ Finish(ValidationError, "Rejected")
                 /\ UNCHANGED texts
    /\ UNCHANGED <<handlers, overlap, impl, started, tokenizer, model, loaded, route, token, req, ext, content, extractor,
                   column_name, results, calls, failed>>

\* classify_review: "return result"
SingleRespond ==
    /\ pc = "respond"
    /\ req.kind = "single"
    /\ Finish([status |-> 200, detail |-> "", result |-> results[1]], "Returned")
    /\ UNCHANGED <<handlers, overlap, impl, started, tokenizer, model, loaded, route, token, req, ext, content, extractor,
                   column_name, texts, results, calls, failed>>

\* Mutant: substituted results are left out of the counts
CountLabel_SkipsSubstituted(rs, label) ==
    Cardinality({i \in 1..Len(rs) : rs[i].sentiment = label /\ rs[i].confidence > 0})

\* classify_reviews_batch: the three counts
CountLabel(rs, label) == Cardinality({i \in 1..Len(rs) : rs[i].sentiment = label})

BatchReviewResponse(rs) ==
    [results |-> rs, status |-> 200, detail |-> "", total |-> Len(rs),
     positive_count |-> CountLabel(rs, "positive"),
     negative_count |-> CountLabel(rs, "negative"),
     neutral_count |-> CountLabel(rs, "neutral")]

\* classify_reviews_batch after predict_batch has returned
BatchRespond ==
    /\ pc = "respond"
    /\ req.kind = "batch"
    /\ pc' = "done"
    /\ response' = BatchReviewResponse(results)
    /\ trace' = trace \o <<"Aggregated", "Returned">>
    /\ UNCHANGED <<handlers, overlap, impl, started, tokenizer, model, loaded, route, token, req, ext, content, extractor,
                   column_name, texts, results, calls, failed>>

\* upload_file: the format check
UploadCheckFormat ==
    /\ pc = "format"
    /\ ext' = file_extension(req.file)
    /\ IF FormatAllowed(file_extension(req.file))
         THEN /\ pc' = "read"
              /\ trace' = Append(trace, "FormatDetected")
              /\ UNCHANGED response
         ELSE Finish(UnsupportedFormat, "Rejected")
    /\ UNCHANGED <<handlers, overlap, impl, started, tokenizer, model, loaded, route, token, req, content, extractor,
                   column_name, texts, results, calls, failed>>

\* Mutant: the handler goes from reading straight to extraction
UploadRead_SkipsSizeCheck ==
    /\ pc = "read"
    /\ content' = TRUE
    /\ pc' = "extract"
    /\ trace' = Append(trace, "ContentRead")
    /\ UNCHANGED <<handlers, overlap, impl, started, tokenizer, model, loaded, route, token, req, ext, extractor,
                   column_name, texts, results, calls, failed, response>>

\* upload_file: "file_content = await file.read()"
UploadRead ==
    /\ pc = "read"
    /\ content' = TRUE
    /\ pc' = "size"
    /\ trace' = Append(trace, "ContentRead")
    /\ UNCHANGED <<handlers, overlap, impl, started, tokenizer, model, loaded, route, token, req, ext, extractor,
                   column_name, texts, results, calls, failed, response>>

\* upload_file: the size check
UploadCheckSize ==
    /\ pc = "size"
    /\ IF UploadSizeAccepted(req.file)
         THEN /\ pc' = "extract"
              /\ trace' = Append(trace, "SizeChecked")
              /\ UNCHANGED response
         ELSE Finish(Oversize, "Rejected")
    /\ UNCHANGED <<handlers, overlap, impl, started, tokenizer, model, loaded, route, token, req, ext, content, extractor,
                   column_name, texts, results, calls, failed>>

\* upload_file: the extractor chosen by file_extension
RunExtractor(e, body) ==
    IF e = <<"c", "s", "v">> THEN process_csv_file(body)
    ELSE IF e = <<"j", "s", "o", "n">> THEN process_json_file(body)
    ELSE process_txt_file(body)

\* Mutant: an exception of the extractor is taken for an empty extraction
ExtractorFailure_Swallowed(out) == FALSE

\* upload_file: an exception of the extractor reaches "except Exception"
ExtractorFailure(out) == out.raised

ExtractorName(e) ==
    IF e = <<"c", "s", "v">> THEN "process_csv_file"
    ELSE IF e = <<"j", "s", "o", "n">> THEN "process_json_file"
    ELSE "process_txt_file"

UploadExtract ==
    /\ pc = "extract"
    /\ extractor' = ExtractorName(ext)
    /\ LET out == RunExtractor(ext, req.file.body)
       IN IF ExtractorFailure(out)
            THEN /\ Finish(InternalError, "Failed")
                 /\ UNCHANGED <<texts, column_name>>
            ELSE /\ texts' = out.texts
                 /\ column_name' = out.column
                 /\ pc' = "check_texts"
                 /\ trace' = Append(trace, "Extracted")
                 /\ UNCHANGED response
    /\ UNCHANGED <<handlers, overlap, impl, started, tokenizer, model, loaded, route, token, req, ext, content,
                   results, calls, failed>>

\* Mutant: the non-empty check is missing
NoTextsFound_Never(ts) == FALSE

\* upload_file: "if not texts"
NoTextsFound(ts) == ts = <<>>

UploadCheckTexts ==
    /\ pc = "check_texts"
    /\ IF NoTextsFound(texts)
         THEN Finish(NoTexts, "Rejected")
         ELSE /\ pc' = LoopEntry(texts)
              /\ UNCHANGED <<response, trace>>
    /\ UNCHANGED <<handlers, overlap, impl, started, tokenizer, model, loaded, route, token, req, ext, content, extractor,
                   column_name, texts, results, calls, failed>>

FileUploadResponse(file, rs) ==
    [results |-> rs, status |-> 200, detail |-> "", filename |-> file.filename,
     size |-> file.size, total_processed |-> Len(rs)]

\* upload_file after predict_batch has returned
UploadRespond ==
    /\ pc = "respond"
    /\ req.kind = "upload"
    /\ pc' = "done"
    /\ response' = FileUploadResponse(req.file, results)
    /\ trace' = trace \o <<"Aggregated", "Returned">>
    /\ UNCHANGED <<handlers, overlap, impl, started, tokenizer, model, loaded, route, token, req, ext, content, extractor,
                   column_name, texts, results, calls, failed>>

Next ==
    \/ Lifespan
    \/ ReceiveSingle
    \/ ReceiveBatch
    \/ ReceiveUpload
    \/ DependencyRaises
    \/ health_check
    \/ get_model_info
    \/ Validate
    \/ RealPredictSingle
    \/ MockPredictSingle
    \/ SingleRespond
    \/ BatchRespond
    \/ UploadCheckFormat
    \/ UploadRead
    \/ UploadCheckSize
    \/ UploadExtract
    \/ UploadCheckTexts
    \/ UploadRespond
    \/ Complete

Spec == Init /\ [][Next]_vars

(***************************************************************************)
(* Two requests in flight.  The handlers are coroutines of one event loop: *)
(* a handler runs without interruption up to its next await.  upload_file  *)
(* has one, "await file.read()"; classify_reviews_batch has none.  The     *)
(* endpoints share the module-level mock_classifier.                       *)
(***************************************************************************)
seqvars == <<impl, started, tokenizer, model, route, token, pc, req, ext, content,
             extractor, column_name, texts, results, calls, failed, response, trace>>

ConcFiles ==
    {File(TRUE, nCsv, max_size_bytes,
          CsvBody(TRUE, <<hContent, hText>>, <<<<tB, tA>>, <<tBlank, tA>>, <<tA, tB>>>>)),
     File(TRUE, nTxt, max_size_bytes, TxtBody(<<Run(tA), NL, NL, Run(tB), NL>>)),
     File(TRUE, nTxt, max_size_bytes + 1, TxtBody(<<Run(tA)>>)),
     File(TRUE, nJson, max_size_bytes, JsonBody(FALSE, JNull)),
     File(TRUE, nPdf, max_size_bytes, TxtBody(<<Run(tA)>>))}

ConcPayloads == {<<tA>>, <<tB, tB>>, <<tBlank>>}

ConcRequests ==
    {[file |-> f, kind |-> "upload", payload |-> <<>>] : f \in ConcFiles}
    \cup {[file |-> NoFile, kind |-> "batch", payload |-> p] : p \in ConcPayloads}

\* MockSentimentClassifier.predict_batch run to its end: every list of
\* results it can return for the texts
RECURSIVE MockPredictBatch(_)
MockPredictBatch(ts) ==
    IF ts = <<>> THEN {<<>>}
    ELSE {AppendResult(rs, SentimentResult(ts[Len(ts)], s, c)) :
            rs \in MockPredictBatch(SubSeq(ts, 1, Len(ts) - 1)),
            s \in SentimentLabel, c \in MockConfidences}

\* Mutant: the content read is kept where the read of another handler, of a
\* file of the same format, replaces it
FileContent_Shared(i) ==
    LET others == {j \in Handlers \ {i} :
                     /\ handlers[j].req.kind = "upload"
                     /\ handlers[j].req.file.body.kind = handlers[i].req.file.body.kind}
    IN IF others = {} THEN handlers[i].req.file
       ELSE handlers[CHOOSE j \in others : TRUE].req.file

\* "file_content = await file.read()": the bytes of the handler's own file
FileContent(i) == handlers[i].req.file

SetHandler(i, h) == handlers' = [handlers EXCEPT ![i] = h]

\* Handler i runs one stretch of code; the handlers waiting in file.read()
\* have had another handler run in between.
Ran(i) == overlap' = overlap \cup {j \in Handlers \ {i} : handlers[j].pc = "reading"}

\* A request is routed to a handler
Arrive(i) ==
    /\ handlers[i].pc = "idle"
    /\ \E r \in ConcRequests :
         SetHandler(i, [HandlerIdle EXCEPT !.pc = "start", !.req = r])
    /\ UNCHANGED <<loaded, overlap>>
    /\ UNCHANGED seqvars

\* classify_reviews_batch, from the parsing of the request to the response
ConcClassifyBatch(i) ==
    LET h == handlers[i] IN
    /\ h.pc = "start"
    /\ h.req.kind = "batch"
    /\ IF BatchRequestValid(h.req.payload)
         THEN /\ \E rs \in MockPredictBatch(MapStrip(h.req.payload)) :
                   SetHandler(i, [h EXCEPT !.pc = "done",
                                           !.texts = MapStrip(h.req.payload),
                                           !.results = rs,
                                           !.response = BatchReviewResponse(rs)])
              /\ loaded' = TRUE
         ELSE /\ SetHandler(i, [h EXCEPT !.pc = "done", !.response = ValidationError])
              /\ UNCHANGED loaded
    /\ Ran(i)
    /\ UNCHANGED seqvars

\* upload_file up to "await file.read()"
ConcUploadUntilRead(i) ==
    LET h == handlers[i] IN
    /\ h.pc = "start"
    /\ h.req.kind = "upload"
    /\ IF FormatAllowed(file_extension(h.req.file))
         THEN SetHandler(i, [h EXCEPT !.pc = "reading"])
         ELSE SetHandler(i, [h EXCEPT !.pc = "done", !.response = UnsupportedFormat])
    /\ Ran(i)
    /\ UNCHANGED loaded
    /\ UNCHANGED seqvars

\* upload_file from the return of file.read() to the response
ConcUploadAfterRead(i) ==
    LET h == handlers[i]
        file_content == FileContent(i)
        out == RunExtractor(file_extension(h.req.file), file_content.body)
    IN
    /\ h.pc = "reading"
    /\ IF ~UploadSizeAccepted(file_content)
         THEN /\ SetHandler(i, [h EXCEPT !.pc = "done", !.response = Oversize])
              /\ UNCHANGED loaded
         ELSE IF ExtractorFailure(out)
         THEN /\ SetHandler(i, [h EXCEPT !.pc = "done", !.response = InternalError])
              /\ UNCHANGED loaded
         ELSE IF NoTextsFound(out.texts)
         THEN /\ SetHandler(i, [h EXCEPT !.pc = "done", !.response = NoTexts])
              /\ UNCHANGED loaded
         ELSE /\ \E rs \in MockPredictBatch(out.texts) :
                   SetHandler(i, [h EXCEPT !.pc = "done",
                                           !.texts = out.texts,
                                           !.results = rs,
                                           !.response =
                                               FileUploadResponse(h.req.file, rs)])
              /\ loaded' = TRUE
    /\ Ran(i)
    /\ UNCHANGED seqvars

\* The response has been sent
Leave(i) ==
    /\ handlers[i].pc = "done"
    /\ SetHandler(i, HandlerIdle)
    /\ overlap' = overlap \ {i}
    /\ UNCHANGED loaded
    /\ UNCHANGED seqvars

Arrives == \E i \in Handlers : Arrive(i)
ClassifiesBatch == \E i \in Handlers : ConcClassifyBatch(i)
UploadsUntilRead == \E i \in Handlers : ConcUploadUntilRead(i)
UploadsAfterRead == \E i \in Handlers : ConcUploadAfterRead(i)
Leaves == \E i \in Handlers : Leave(i)

InitConc == Init /\ impl = "mock"

NextConc ==
    \/ Arrives
    \/ ClassifiesBatch
    \/ UploadsUntilRead
    \/ UploadsAfterRead
    \/ Leaves

SpecConc == InitConc /\ [][NextConc]_vars

(***************************************************************************)
(* Properties                                                              *)
(***************************************************************************)
IsUpload == req.kind = "upload"
IsBatch == req.kind = "batch"
Succeeded == pc = "done" /\ response.status = 200

\* predict_batch has returned its list to the endpoint
BatchReturned ==
    /\ req.kind \in {"batch", "upload"}
    /\ pc = "respond" \/ Succeeded

\* C1: the list predict_batch returns has one result per input text, and the
\* result at index i carries the text at index i; while the loop runs, the
\* results collected so far are aligned with the first inputs.
C1_BatchIndexAligned ==
    /\ Len(results) <= Len(texts)
    /\ \A i \in 1..Len(results) : results[i].text = texts[i]
    /\ BatchReturned => Len(results) = Len(texts)
    /\ Succeeded /\ req.kind \in {"batch", "upload"} => response.results = results

C1_Witness ==
    /\ pc = "respond"
    /\ IsBatch
    /\ Len(texts) = 2
    /\ texts[1] # texts[2]
    /\ failed = {1}

\* C2: when the inference of an item raises, the item is represented by the
\* neutral result of confidence 0.0 with its own text, the request still ends
\* with a success response holding one result per input, the other items have
\* ordinary results, and the counts of classify-batch cover all items.
C2_FailedItemSubstituted ==
    /\ \A i \in failed :
         /\ i <= Len(results)
         /\ results[i] = [sentiment |-> "neutral", confidence |-> 0, text |-> texts[i]]
    /\ \A i \in (1..Len(results)) \ failed : results[i].confidence > 0
    /\ failed # {} /\ pc = "done" =>
         /\ response.status = 200
         /\ req.kind \in {"batch", "upload"} => Len(response.results) = Len(texts)
         /\ IsBatch =>
              /\ response.total = Len(req.payload)
              /\ response.neutral_count >= Cardinality(failed)
              /\ response.positive_count + response.negative_count
                   + response.neutral_count = Len(req.payload)

C2_Witness ==
    /\ Succeeded
    /\ IsBatch
    /\ failed = {1}
    /\ Len(texts) = 2
    /\ results[2].sentiment = "positive"
    /\ response.neutral_count = 1

\* C3: once the extractor of upload-file has produced a non-empty list of
\* texts, the request does not end with an error response.
C3_NoErrorAfterExtraction ==
    ~(IsUpload /\ texts # <<>> /\ pc = "done" /\ response.status # 200)

\* The extension of the uploaded name as written, before any change of case
WrittenExtension(file) ==
    IF file.has_name THEN LastPart(file.filename) ELSE <<>>

SameIgnoringCase(u, v) ==
    /\ Len(u) = Len(v)
    /\ \A i \in 1..Len(u) : LowerChar(u[i]) = LowerChar(v[i])

SupportedExtension(file) ==
    \E a \in {<<"c", "s", "v">>, <<"j", "s", "o", "n">>, <<"t", "x", "t">>} :
        SameIgnoringCase(WrittenExtension(file), a)

\* The first check of upload_file that a file fails, "none" when it passes all
FirstFailure(file) ==
    IF ~SupportedExtension(file) THEN "format"
    ELSE IF file.size > 10485760 THEN "size"
    ELSE IF RunExtractor(Lower(WrittenExtension(file)), file.body).raised THEN "extractor"
    ELSE IF RunExtractor(Lower(WrittenExtension(file)), file.body).texts = <<>> THEN "empty"
    ELSE "none"

ErrorOf(failure) ==
    CASE failure = "format"    -> UnsupportedFormat
      [] failure = "size"      -> Oversize
      [] failure = "extractor" -> InternalError
      [] failure = "empty"     -> NoTexts

\* C4: an upload that fails the format check, the size check, its extractor
\* or the non-empty check ends with the error of the first check it fails;
\* no result is produced and the classifier is not invoked for it.
C4_FailClosedThroughExtraction ==
    IsUpload /\ FirstFailure(req.file) # "none" =>
        /\ calls = <<>>
        /\ results = <<>>
        /\ pc \notin {"classify", "respond"}
        /\ pc = "done" => response = ErrorOf(FirstFailure(req.file))

C4_Witness ==
    /\ IsUpload
    /\ pc = "done"
    /\ FirstFailure(req.file) = "extractor"
    /\ extractor = "process_csv_file"
    /\ req.file.body.kind = "csv"
    /\ response.status = 500

\* C5: in a classify-batch response, total is the sum of the three counts and
\* the length of the result list.
C5_CountsSumToTotal ==
    IsBatch /\ Succeeded =>
        /\ response.total = response.positive_count + response.negative_count
                              + response.neutral_count
        /\ response.total = Len(response.results)

C5_Witness ==
    /\ IsBatch
    /\ Succeeded
    /\ response.positive_count = 1
    /\ response.neutral_count = 1
    /\ response.total = 2
    /\ failed # {}

\* C6: every result has a confidence between 0.0 and 1.0 inclusive and one of
\* the three labels.
ResultInRange(r) ==
    /\ r.confidence >= 0
    /\ r.confidence <= 10000
    /\ r.sentiment \in {"positive", "negative", "neutral"}

C6_ResultsInRange ==
    /\ \A i \in 1..Len(results) : ResultInRange(results[i])
    /\ Succeeded /\ req.kind = "single" => ResultInRange(response.result)
    /\ Succeeded /\ req.kind \in {"batch", "upload"} =>
         \A i \in 1..Len(response.results) : ResultInRange(response.results[i])

C6_Witness ==
    /\ Len(results) = 2
    /\ results[1].confidence = 0
    /\ results[2].confidence = 10000
    /\ impl = "real"

Rep(n, x) == [i \in 1..n |-> x]

\* A run of the handler so far: a prefix of the order, or such a prefix ended
\* by a rejection or a failure
IsRunOf(tr, order) ==
    \E k \in 0..Len(order) :
        \/ tr = SubSeq(order, 1, k)
        \/ tr = Append(SubSeq(order, 1, k), "Rejected")
        \/ tr = Append(SubSeq(order, 1, k), "Failed")

ClaimedOrder(n) ==
    <<"Received", "SizeChecked", "FormatDetected", "Extracted">>
    \o Rep(n, "Classified") \o <<"Aggregated", "Returned">>

CodeOrder(n) ==
    <<"Received", "FormatDetected", "ContentRead", "SizeChecked", "Extracted">>
    \o Rep(n, "Classified") \o <<"Aggregated", "Returned">>

NotContentRead(e) == e # "ContentRead"

\* C7 as stated: the steps of upload-file run in the order Received,
\* SizeChecked, FormatDetected, Extracted, Classified per item, Aggregated,
\* Returned (the size check before the format check).
C7_ClaimedStepOrder ==
    IsUpload => IsRunOf(SelectSeq(trace, NotContentRead), ClaimedOrder(Len(texts)))

\* C7 amended: the steps of upload-file run in the order Received,
\* FormatDetected, content read, SizeChecked, Extracted, Classified once per
\* item, Aggregated, Returned; a success response has passed through all of
\* them, none skipped.
C7_CodeStepOrder ==
    IsUpload =>
        /\ IsRunOf(trace, CodeOrder(Len(texts)))
        /\ Succeeded => trace = CodeOrder(Len(texts)) /\ Len(texts) >= 1

C7_Witness ==
    /\ IsUpload
    /\ Succeeded
    /\ Len(results) = 2
    /\ trace = <<"Received", "FormatDetected", "ContentRead", "SizeChecked",
                 "Extracted", "Classified", "Classified", "Aggregated", "Returned">>

\* C8 as stated: every upload longer than the cap is rejected with the
\* oversize error and reaches no extractor.
C8_OversizeAlwaysOversizeError ==
    IsUpload /\ req.file.size > 10485760 =>
        /\ extractor = ""
        /\ pc = "done" => response = Oversize

\* C8 amended: an upload longer than the cap reaches no extractor and is
\* rejected whatever its content, with the oversize error when its extension
\* is supported and with the unsupported-format error otherwise.
C8_OversizeRejected ==
    IsUpload /\ req.file.size > 10485760 =>
        /\ extractor = ""
        /\ texts = <<>>
        /\ calls = <<>>
        /\ pc \notin {"extract", "check_texts", "classify", "respond"}
        /\ pc = "done" =>
             response = IF SupportedExtension(req.file) THEN Oversize
                                                        ELSE UnsupportedFormat

C8_Witness ==
    /\ IsUpload
    /\ pc = "done"
    /\ req.file.size = 10485761
    /\ req.file.body = TxtBody(<<Run(tA), NL, Run(tB)>>)
    /\ response = Oversize

\* The decision of the size check, for C9
C9_SizeDecision ==
    /\ \A mb \in {1, 10, 11} :
         \A sz \in {mb * 1048576 - 1, mb * 1048576, mb * 1048576 + 1} :
             validate_file_size(sz, mb) <=> (sz <= mb * 1048576)
    /\ IsUpload /\ pc \in {"extract", "check_texts", "classify", "respond"} =>
         req.file.size <= 10485760
    /\ IsUpload /\ pc = "done" /\ content =>
         (response = Oversize <=> req.file.size > 10485760)

\* C9: validate_file_size accepts exactly the lengths of at most
\* max_size_mb * 1024 * 1024 bytes, 10 MiB in upload_file: a file of exactly
\* the cap goes on to extraction, one byte more is rejected; the check
\* changes nothing but the course of the handler.
C9_SizeCheckAtCap ==
    /\ [] C9_SizeDecision
    /\ [][pc = "size" => UNCHANGED <<handlers, overlap, impl, started, tokenizer, model, loaded, route, token, req,
                                     ext, content, extractor, column_name, texts, results,
                                     calls, failed>>]_vars

C9_Witness ==
    /\ IsUpload
    /\ pc = "extract"
    /\ req.file.size = 10485760

\* C10: an upload whose extension is, ignoring case, none of csv, json, txt
\* ends with the unsupported-format error without its content being read,
\* its size checked or an extractor run; an extension that is one of them up
\* to letter case is not rejected for its format.
C10_FormatCheckedFirst ==
    /\ IsUpload /\ ~SupportedExtension(req.file) =>
         /\ ~content
         /\ extractor = ""
         /\ pc \in {"format", "done"}
         /\ \A i \in 1..Len(trace) : trace[i] \in {"Received", "Rejected"}
         /\ pc = "done" => response = UnsupportedFormat
    /\ IsUpload /\ SupportedExtension(req.file) /\ pc # "format" =>
         /\ response # UnsupportedFormat
         /\ pc = "done" \/ content \/ pc = "read"

C10_Witness ==
    /\ IsUpload
    /\ req.file.filename = nCsvUpper
    /\ Succeeded

\* A file name without an extension: no name, an empty name, or a name
\* without a dot
NoExtension(file) ==
    \/ ~file.has_name
    \/ file.filename = <<>>
    \/ \A i \in 1..Len(file.filename) : file.filename[i] # "."

\* C11: an upload whose file name has no extension (absent, empty or without
\* a dot, the names csv, json and txt included) ends with the
\* unsupported-format error and nothing else is done for it: its content is
\* not read and no extractor runs.
C11_NoExtensionRejected ==
    IsUpload /\ NoExtension(req.file) =>
        /\ ~content
        /\ extractor = ""
        /\ pc \in {"format", "done"}
        /\ pc = "done" => response = UnsupportedFormat

\* The extractor of this upload has returned
ExtractorReturned == \E i \in 1..Len(trace) : trace[i] = "Extracted"

\* C12: when the extractor of an upload returns no text, the request ends
\* with the no-texts error and the classifier is never called for it; a
\* success response of upload-file holds at least one result.
C12_EmptyExtractionRejected ==
    /\ IsUpload /\ ExtractorReturned /\ texts = <<>> =>
         /\ calls = <<>>
         /\ results = <<>>
         /\ pc \in {"check_texts", "done"}
         /\ pc = "done" => response = NoTexts
    /\ IsUpload /\ Succeeded =>
         /\ Len(response.results) >= 1
         /\ response.total_processed >= 1

C12_Witness ==
    /\ IsUpload
    /\ pc = "done"
    /\ response = NoTexts
    /\ extractor = "process_json_file"
    /\ req.file.body = JsonBody(TRUE, JDict(<<<<"reviews", JList(<<JStr(EmptyStr), JNum>>)>>>>))

\* The candidate column names of the CSV extractor
CandidateNames ==
    {<<"t", "e", "x", "t">>, <<"r", "e", "v", "i", "e", "w">>,
     <<"c", "o", "m", "m", "e", "n", "t">>, <<"f", "e", "e", "d", "b", "a", "c", "k">>,
     <<"m", "e", "s", "s", "a", "g", "e">>, <<"c", "o", "n", "t", "e", "n", "t">>}

IsCandidate(h) == \E c \in CandidateNames : SameIgnoringCase(h, c)

\* col is the header the claim says is selected among headers
IsSelectedHeader(headers, col) ==
    \E i \in 1..Len(headers) :
        /\ col = headers[i]
        /\ IF \E j \in 1..Len(headers) : IsCandidate(headers[j])
             THEN IsCandidate(headers[i]) /\ \A j \in 1..(i - 1) : ~IsCandidate(headers[j])
             ELSE i = 1

CsvUpload ==
    /\ IsUpload
    /\ req.file.body.kind = "csv"
    /\ extractor = "process_csv_file"

\* C13: the text column of process_csv_file is the first header, in header
\* order, that is one of the candidate names up to letter case, and the first
\* header when none is; the column name returned with the texts is that
\* header as written in the file.
C13_ColumnSelection ==
    CsvUpload /\ req.file.body.has_header /\ req.file.body.fieldnames # <<>> =>
        /\ IsSelectedHeader(req.file.body.fieldnames,
                            text_column_of(req.file.body.fieldnames))
        /\ ExtractorReturned =>
             IsSelectedHeader(req.file.body.fieldnames, column_name)

C13_Witness ==
    /\ CsvUpload
    /\ ExtractorReturned
    /\ req.file.body.fieldnames = <<hContent, hText>>
    /\ column_name = hContent

\* The index of the header the claims select: the first candidate header,
\* the first header when there is none
SelectedIndex(headers) ==
    IF \E j \in 1..Len(headers) : IsCandidate(headers[j])
      THEN CHOOSE i \in 1..Len(headers) :
             /\ IsCandidate(headers[i])
             /\ \A j \in 1..(i - 1) : ~IsCandidate(headers[j])
      ELSE 1

NonEmptyText(t) == t.len > 0

\* The trimmed value of column i in each data row (empty where the row has
\* no such field), and those of them that are not empty, in file order
TrimmedColumn(rows, i) ==
    [k \in 1..Len(rows) |-> IF i <= Len(rows[k]) THEN Strip(rows[k][i]) ELSE EmptyStr]

ExpectedCsvTexts(body) ==
    SelectSeq(TrimmedColumn(body.rows, SelectedIndex(body.fieldnames)), NonEmptyText)

\* C14: for every CSV document with a header row, process_csv_file returns
\* the trimmed values of the selected column of the data rows whose value is
\* not empty after trimming, in file order, and the name of that column; a
\* row whose value is empty after trimming contributes nothing.
C14_CsvRowsEmitted ==
    CsvUpload /\ req.file.body.has_header /\ req.file.body.fieldnames # <<>> =>
        /\ ExtractorReturned
        /\ texts = ExpectedCsvTexts(req.file.body)
        /\ column_name = req.file.body.fieldnames[SelectedIndex(req.file.body.fieldnames)]

\* The document has no header: the reader yields no record at all, or its
\* first record is empty
NoHeaders(body) == ~body.has_header \/ body.fieldnames = <<>>

\* Every data row has a field under every header
FullRows(body) ==
    \A k \in 1..Len(body.rows) :
        body.rows[k] = <<>> \/ Len(body.rows[k]) >= Len(body.fieldnames)

\* The run has failed and it is the extractor that raised
ExtractorRaisedInRun ==
    /\ \E i \in 1..Len(trace) : trace[i] = "Failed"
    /\ ~ExtractorReturned

\* C15: process_csv_file fails exactly on the documents without a header;
\* on a document with a header row, whatever the header names (an empty
\* first name included), a text column is selected and the rows are read.
\* (Stated on documents whose rows are complete.)
C15_FailsOnlyWithoutHeader ==
    CsvUpload /\ FullRows(req.file.body) =>
        /\ ExtractorRaisedInRun <=> NoHeaders(req.file.body)
        /\ ~NoHeaders(req.file.body) =>
             /\ ExtractorReturned
             /\ texts = ExpectedCsvTexts(req.file.body)

JsonUpload ==
    /\ IsUpload
    /\ req.file.body.kind = "json"
    /\ extractor = "process_json_file"

\* The keys of an array element, by priority
ElementKeys == <<"text", "review", "comment", "feedback", "message", "content">>

\* The member of object obj under key holds a string that is not empty
\* after trimming
HasTextUnder(obj, key) ==
    \E i \in 1..Len(obj.fields) :
        /\ obj.fields[i][1] = key
        /\ obj.fields[i][2].t = "str"
        /\ obj.fields[i][2].s.len > 0

TextUnder(obj, key) ==
    Strip(obj.fields[CHOOSE i \in 1..Len(obj.fields) : obj.fields[i][1] = key][2].s)

\* What one element of a top-level array yields: no text or one
ExpectedOfElement(e) ==
    IF e.t = "str"
      THEN IF e.s.len > 0 THEN <<Strip(e.s)>> ELSE <<>>
      ELSE IF e.t = "dict" /\ \E k \in 1..Len(ElementKeys) : HasTextUnder(e, ElementKeys[k])
             THEN LET k == CHOOSE k \in 1..Len(ElementKeys) :
                             /\ HasTextUnder(e, ElementKeys[k])
                             /\ \A j \in 1..(k - 1) : ~HasTextUnder(e, ElementKeys[j])
                  IN <<TextUnder(e, ElementKeys[k])>>
             ELSE <<>>

RECURSIVE ExpectedOfArray(_)
ExpectedOfArray(items) ==
    IF items = <<>> THEN <<>>
    ELSE ExpectedOfElement(Head(items)) \o ExpectedOfArray(Tail(items))

\* C16: for a JSON document that is an array, process_json_file returns, in
\* the order of the elements, for each string element that is not empty
\* after trimming its trimmed value, for each object element the trimmed
\* value under the first key of text, review, comment, feedback, message,
\* content that holds such a string, and nothing for any other element; no
\* element makes it fail.
C16_JsonArrayElements ==
    JsonUpload /\ req.file.body.valid /\ req.file.body.data.t = "list" =>
        /\ ExtractorReturned
        /\ texts = ExpectedOfArray(req.file.body.data.items)

C16_Witness ==
    /\ JsonUpload
    /\ ExtractorReturned
    /\ req.file.body.data =
         JList(<<JDict(<<<<"review", JStr(tB)>>, <<"text", JStr(tA)>>>>), JStr(tA)>>)
    /\ texts = <<tA, tA>>

\* The keys of a top-level object, by priority
ObjectKeys == <<"texts", "reviews", "comments", "feedbacks", "messages", "content">>

HasArrayUnder(obj, key) ==
    \E i \in 1..Len(obj.fields) : obj.fields[i][1] = key /\ obj.fields[i][2].t = "list"

ArrayUnder(obj, key) ==
    obj.fields[CHOOSE i \in 1..Len(obj.fields) : obj.fields[i][1] = key][2].items

IsNonBlankString(e) == e.t = "str" /\ e.s.len > 0

\* The trimmed values of the strings of an array that are not empty after
\* trimming, in array order
TrimmedStrings(items) ==
    LET kept == SelectSeq(items, IsNonBlankString)
    IN [i \in 1..Len(kept) |-> Strip(kept[i].s)]

ExpectedOfObject(obj) ==
    IF \E k \in 1..Len(ObjectKeys) : HasArrayUnder(obj, ObjectKeys[k])
      THEN LET k == CHOOSE k \in 1..Len(ObjectKeys) :
                      /\ HasArrayUnder(obj, ObjectKeys[k])
                      /\ \A j \in 1..(k - 1) : ~HasArrayUnder(obj, ObjectKeys[j])
           IN TrimmedStrings(ArrayUnder(obj, ObjectKeys[k]))
      ELSE <<>>

\* C17: for a JSON document that is an object, process_json_file uses the
\* array under the first key of texts, reviews, comments, feedbacks,
\* messages, content whose value is an array, and nothing else: it returns
\* the trimmed values of the strings of that array that are not empty after
\* trimming, in array order, even when that array gives no text and a later
\* key holds some.
C17_JsonObjectFirstArray ==
    JsonUpload /\ req.file.body.valid /\ req.file.body.data.t = "dict" =>
        /\ ExtractorReturned
        /\ texts = ExpectedOfObject(req.file.body.data)

C17_Witness ==
    /\ JsonUpload
    /\ ExtractorReturned
    /\ req.file.body.data = JDict(<<<<"reviews", JList(<<JStr(tA)>>)>>,
                                   <<"texts", JList(<<>>)>>>>)
    /\ texts = <<>>
    /\ response = NoTexts

\* C18: for a JSON document that parses to a value that is neither an array
\* nor an object (a string, a number, a boolean, null), process_json_file
\* returns the empty list and does not fail; for a document that does not
\* parse it raises, and the upload ends with the internal error.
C18_JsonScalarOrMalformed ==
    /\ JsonUpload /\ req.file.body.valid
         /\ req.file.body.data.t \in {"str", "num", "bool", "null"} =>
         /\ ExtractorReturned
         /\ ~ExtractorRaisedInRun
         /\ texts = <<>>
         /\ pc = "done" => response = NoTexts
    /\ JsonUpload /\ ~req.file.body.valid =>
         /\ ExtractorRaisedInRun
         /\ pc = "done"
         /\ response = InternalError

C18_Witness ==
    /\ JsonUpload
    /\ req.file.body = JsonBody(TRUE, JStr(tA))
    /\ ExtractorReturned
    /\ pc = "done"
    /\ response = NoTexts

TxtUpload ==
    /\ IsUpload
    /\ req.file.body.kind = "txt"
    /\ extractor = "process_txt_file"

\* A token that is a line with something left after trimming (the lines of a
\* file are its runs between newlines, and the empty lines)
IsNonBlankLine(tok) == ~tok.nl /\ tok.s.len > 0

\* The trimmed non-blank lines of a file, in file order
ExpectedTxtTexts(toks) ==
    LET kept == SelectSeq(toks, IsNonBlankLine)
    IN [i \in 1..Len(kept) |-> Strip(kept[i].s)]

\* C19: process_txt_file returns the lines of the content, split at the
\* newlines, each trimmed, without the lines that are blank after trimming,
\* in their original order ("a\n\nb\n" gives a, b).
C19_TxtLines ==
    TxtUpload =>
        /\ ExtractorReturned
        /\ texts = ExpectedTxtTexts(req.file.body.tokens)

C19_Witness ==
    /\ TxtUpload
    /\ req.file.body = TxtBody(<<Run(tA), NL, NL, Run(tB), NL>>)
    /\ texts = <<tA, Strip(tB)>>
    /\ Succeeded

\* A text that is not empty and has no whitespace at either end
IsTrimmedText(t) ==
    /\ t.len > 0
    /\ t.lead = 0
    /\ t.trail = 0

\* C20: every text an extractor (csv, json or txt) returns, for every
\* document, is non-empty and has no leading or trailing whitespace.
C20_ExtractedTextsTrimmed ==
    IsUpload => \A i \in 1..Len(texts) : IsTrimmedText(texts[i])

C20_Witness ==
    /\ CsvUpload
    /\ ExtractorReturned
    /\ req.file.body = CsvBody(TRUE, <<hReview>>, <<<<tB>>, <<tBlank>>>>)
    /\ texts = <<Txt("b", 0, 1, 0)>>

\* The texts a source item can give: the trimmed fields of a data row, the
\* trimmed string of an array element or the trimmed strings held by an
\* object element, the trimmed run of a line
RowCandidates(row) == {Strip(row[i]) : i \in 1..Len(row)}

ElementCandidates(e) ==
    IF e.t = "str" THEN {Strip(e.s)}
    ELSE {Strip(e.fields[i][2].s) : i \in {j \in 1..Len(e.fields) : e.fields[j][2].t = "str"}}

TokenCandidates(tok) == IF tok.nl THEN {} ELSE {Strip(tok.s)}

\* The candidate sets of the source items of a document, in source order;
\* for a JSON object, those of the array under key
SourceCandidates(body, key) ==
    CASE body.kind = "csv" ->
           [k \in 1..Len(body.rows) |-> RowCandidates(body.rows[k])]
      [] body.kind = "txt" ->
           [k \in 1..Len(body.tokens) |-> TokenCandidates(body.tokens[k])]
      [] body.kind = "json" /\ body.data.t = "list" ->
           [k \in 1..Len(body.data.items) |-> ElementCandidates(body.data.items[k])]
      [] body.kind = "json" /\ body.data.t = "dict" /\ HasArrayUnder(body.data, key) ->
           [k \in 1..Len(ArrayUnder(body.data, key)) |->
              ElementCandidates(ArrayUnder(body.data, key)[k])]
      [] OTHER -> <<>>

\* ts is drawn from the items in order: each text from an item of its own,
\* the items of successive texts in increasing position
RECURSIVE DrawnInOrder(_, _)
DrawnInOrder(ts, cands) ==
    IF ts = <<>> THEN TRUE
    ELSE IF cands = <<>> THEN FALSE
    ELSE IF Head(ts) \in Head(cands)
           THEN DrawnInOrder(Tail(ts), Tail(cands))
           ELSE DrawnInOrder(ts, Tail(cands))

\* C21: the texts an extractor returns are drawn from the source items (data
\* rows, array elements, lines) in source order: a text whose item precedes
\* the item of another text precedes it in the output, and no item gives
\* more than one text.
C21_ExtractionKeepsOrder ==
    IsUpload /\ ExtractorReturned =>
        \E k \in 1..Len(ObjectKeys) :
            DrawnInOrder(texts, SourceCandidates(req.file.body, ObjectKeys[k]))

C21_Witness ==
    /\ CsvUpload
    /\ ExtractorReturned
    /\ Len(req.file.body.rows) = 3
    /\ req.file.body.fieldnames = <<hContent, hText>>
    /\ texts = <<Strip(tB), tA>>

\* input is the trimmed text cut to at most 512 characters
IsTruncatedTrim(text, input) ==
    /\ input.id = text.id
    /\ input.lead = 0
    /\ input.trail = 0
    /\ input.len = IF text.len > 512 THEN 512 ELSE text.len

\* C23: for every classified item, the text given to the inference step is
\* the trimmed text cut to at most 512 characters, and the text of the
\* result is the original text in full, also when it is longer than that.
C23_InferenceInputTruncated ==
    /\ \A i \in 1..Len(calls) :
         /\ calls[i].text = texts[i]
         /\ IsTruncatedTrim(texts[i], calls[i].input)
         /\ StrLen(calls[i].input) <= 512
    /\ \A i \in 1..Len(results) : results[i].text = texts[i]

\* the batch request passed validation in this run
BatchAccepted == IsBatch /\ \E i \in 1..Len(trace) : trace[i] = "Validated"

\* C24: the direct batch entry accepts only 1 to 100 texts, each non-empty
\* after trimming and at most 512 characters long; a request violating any
\* of these is rejected before any text is classified, and the texts of an
\* accepted request reach the classifier trimmed.
C24_BatchBounds ==
    /\ BatchAccepted =>
         /\ Len(req.payload) >= 1
         /\ Len(req.payload) <= 100
         /\ \A i \in 1..Len(req.payload) :
              /\ StrLen(Strip(req.payload[i])) >= 1
              /\ StrLen(Strip(req.payload[i])) <= 512
         /\ texts = MapStrip(req.payload)
    /\ IsBatch /\ ~BatchAccepted => calls = <<>>

\* Positions of an event in the trace
EventPositions(event) == {i \in 1..Len(trace) : trace[i] = event}

\* C25: within one batch the classifier is invoked exactly once per item,
\* one item after the other in input order, and no item is tried again;
\* the label counts are computed only after the last item's result exists.
C25_OncePerItemInOrder ==
    IsBatch =>
        /\ Len(calls) <= Len(texts)
        /\ \A i \in 1..Len(calls) : calls[i].text = texts[i]
        /\ Cardinality(EventPositions("Classified")) = Len(calls)
        /\ \A a \in EventPositions("Aggregated") :
             /\ Len(calls) = Len(texts)
             /\ Len(results) = Len(texts)
             /\ \A c \in EventPositions("Classified") : c < a

C25_Witness ==
    /\ IsBatch
    /\ EventPositions("Aggregated") # {}
    /\ Len(texts) = 2
    /\ texts[1] # texts[2]
    /\ 2 \in failed

\* load_model raised inside predict_single in this run (the only exception
\* of a request that comes after the extraction, if there is one)
LoadRaisedInRun ==
    /\ pc = "done"
    /\ response = InternalError
    /\ IsUpload => ExtractorReturned

\* C28: predict_single runs its inference step only on a loaded classifier:
\* it loads first when the classifier is not loaded, and after a failed
\* load the classifier still counts as not loaded, so that the next call
\* loads again instead of running inference on a partially loaded model.
C28_InferenceOnlyWhenLoaded ==
    /\ calls # <<>> => IF impl = "mock" THEN loaded ELSE model /\ tokenizer
    /\ LoadRaisedInRun => impl = "real" /\ RealLoadNeeded

\* An upload whose handler has ended
UploadEnded == IsUpload /\ pc = "done"

\* One of the three checks of upload_file refuses the file
RefusedByCheck(failure) == failure \in {"format", "size", "empty"}

\* Something else went wrong: the extractor raised, or the file passed every
\* check and predict_batch did not return a result for every text
OtherException(failure) ==
    \/ failure = "extractor"
    \/ failure = "none" /\ Len(results) < Len(texts)

\* C29: the caller of upload-file sees 400 exactly when the format check,
\* the size check or the empty-extraction check refused the request, and
\* 500 exactly when any other exception reached the handler (decode or
\* parse error in the extractor, exception leaving the classifier); a
\* failure never ends in a success response and a 400 never becomes a 500.
C29_UploadErrorStatus ==
    UploadEnded =>
        LET failure == FirstFailure(req.file) IN
        /\ response.status \in {200, 400, 500}
        /\ response.status = 400 <=> RefusedByCheck(failure)
        /\ response.status = 500 <=> OtherException(failure)
        /\ RefusedByCheck(failure) => response = ErrorOf(failure)

C29_Witness ==
    /\ UploadEnded
    /\ req.file.body = BadUtf8
    /\ response.status = 500
    /\ extractor = "process_json_file"

\* A csv document with a header row in which a text column is found
HasTextColumn(body) ==
    /\ body.kind = "csv"
    /\ body.has_header
    /\ text_column_of(body.fieldnames) # <<>>

\* C30: on a csv document with a header row no data row makes
\* process_csv_file fail: a row with fewer fields than the header is skipped
\* or gives one text, and the extractor returns.
C30_NoRowFailsExtraction ==
    CsvUpload /\ HasTextColumn(req.file.body) => ~ExtractorRaisedInRun

OwnTexts(r) ==
    IF r.kind = "batch" THEN MapStrip(r.payload)
    ELSE RunExtractor(Lower(WrittenExtension(r.file)), r.file.body).texts

\* The response of a handler answers the handler's own request
AnswersOwnRequest(h) ==
    /\ Len(h.response.results) = Len(OwnTexts(h.req))
    /\ \A k \in 1..Len(OwnTexts(h.req)) : h.response.results[k].text = OwnTexts(h.req)[k]
    /\ h.req.kind = "upload" =>
         /\ h.response.filename = h.req.file.filename
         /\ h.response.size = h.req.file.size

====
